---- MODULE Spec2Model ----
(***************************************************************************)
(* Model of .github/workflows/spellcheck.py: remove_punctuation,           *)
(* spell_check_notebook and spell_check_directory.                         *)
(*                                                                         *)
(* A text is a sequence of characters, a character is a one-character      *)
(* string ("U+00E9" stands for the non-ASCII letter e-acute, "U+00C9" for  *)
(* its capital, "U+0060" for the grave accent).  A Python dict is a        *)
(* sequence of <<key, value>> pairs in insertion order; a Python set is a  *)
(* set.                                                                    *)
(***************************************************************************)
EXTENDS Integers, Sequences, FiniteSets, TLC

VARIABLES
    \* ---- the run of remove_punctuation / str.split on one text
    text,                  \* the argument of remove_punctuation
    stripped,              \* remove_punctuation(text)
    stripped2,             \* remove_punctuation(stripped)
    words,                 \* stripped.split()
    tpc,                   \* position of that run
    \* ---- the environment
    fs,                    \* the directory tree: directory path -> entries
    \* ---- spell_check_directory
    pc,                    \* position of the process
    ignore_words,          \* the ignore list passed in
    all_misspelled_words,  \* the aggregate dict
    stack,                 \* directories os.walk has still to yield
    subdir,                \* the directory os.walk yielded last
    files,                 \* files of subdir the inner loop has still to visit
    items,                 \* items of the aggregate still to print
    \* ---- spell_check_notebook
    caller,                \* "directory" (called at line 38) or "direct"
    filepath,              \* its argument
    document,              \* what is stored at filepath
    dictionary,            \* spell.word_frequency: the known words
    misspelled_words,      \* its local dict
    nb,                    \* the parsed notebook: a sequence of cells
    cell_index,            \* position of the loop of line 20
    pending,               \* the exception in flight inside the with block
    result,                \* the value returned to line 38
    \* ---- the process and its observable effects
    open_files,            \* paths with an open file handle
    stdout,                \* the lines printed, each <<path, words>>
    exit_status,           \* "running", 0 or 1
    sys_exit_called,       \* sys.exit(1) was executed (line 45)
    exception,             \* the type of the uncaught exception, or None
    \* ---- history (not program state): the calls made so far
    checked,               \* arguments of the calls of spell_check_notebook
    opened                 \* paths passed to open()

tvars == <<text, stripped, stripped2, words, tpc>>
nvars == <<caller, filepath, document, dictionary, misspelled_words, nb,
           cell_index, pending, result>>
dvars == <<pc, ignore_words, all_misspelled_words, stack, subdir, files,
           items>>
evars == <<fs, open_files, stdout, exit_status, sys_exit_called, exception,
           checked, opened>>
vars == <<tvars, nvars, dvars, evars>>

None == "None"

----------------------------------------------------------------------------
(* Bounds of the model *)

MaxTextLen == 3     \* longest text given to remove_punctuation alone
MaxCells == 2       \* most cells of a document checked directly
MaxFiles == 3       \* most files in a directory tree

----------------------------------------------------------------------------
(* Characters *)

\* string.punctuation, the 32 ASCII punctuation characters ("U+0060" is the
\* grave accent)
Punctuation ==
    {"!", "\"", "#", "$", "%", "&", "'", "(", ")", "*", "+", ",", "-", ".",
     "/", ":", ";", "<", "=", ">", "?", "@", "[", "\\", "]", "^", "_", "U+0060",
     "{", "|", "}", "~"}

\* the characters str.split() with no argument splits on
Whitespace == {" ", "\t", "\n", "\r"}

Digits == {"0", "1", "2", "3", "4", "5", "6", "7", "8", "9"}

UpperCase == <<"A", "B", "C", "D", "E", "F", "G", "H", "I", "J", "K", "L", "M",
               "N", "O", "P", "Q", "R", "S", "T", "U", "V", "W", "X", "Y", "Z",
               "U+00C9">>
LowerCase == <<"a", "b", "c", "d", "e", "f", "g", "h", "i", "j", "k", "l", "m",
               "n", "o", "p", "q", "r", "s", "t", "u", "v", "w", "x", "y", "z",
               "U+00E9">>

\* the characters of the texts given to remove_punctuation alone
TextChars == {"a", "B", "1", " ", "\n", ".", "'", "U+00E9"}

----------------------------------------------------------------------------
(* remove_punctuation and str.split *)

\* str.maketrans('', '', string.punctuation): every punctuation character
\* is mapped to None, no other character is in the table
\* (faulty variant: the apostrophe is left out of the table)
maketrans_loose(deleted) == [c \in deleted \ {"'"} |-> None]
maketrans(deleted) == [c \in deleted |-> None]

\* str.translate: a character mapped to None is deleted, a character the
\* table does not hold is kept, in order
RECURSIVE translate(_, _)
translate(s, table) ==
    IF s = <<>> THEN <<>>
    ELSE LET c == Head(s)
             rest == translate(Tail(s), table)
         IN  IF c \in DOMAIN table
             THEN IF table[c] = None THEN rest ELSE <<table[c]>> \o rest
             ELSE <<c>> \o rest

remove_punctuation(s) ==
    LET translator == maketrans(Punctuation)
    IN  translate(s, translator)

\* str.split(): the maximal runs of non-whitespace characters, in order;
\* cur is the run being read
RECURSIVE split_from(_, _)
split_from(s, cur) ==
    IF s = <<>> THEN (IF cur = <<>> THEN <<>> ELSE <<cur>>)
    ELSE IF Head(s) \in Whitespace
         THEN (IF cur = <<>> THEN <<>> ELSE <<cur>>) \o split_from(Tail(s), <<>>)
         ELSE split_from(Tail(s), Append(cur, Head(s)))

split(s) == split_from(s, <<>>)

----------------------------------------------------------------------------
(* Python dicts: sequences of <<key, value>> pairs in insertion order *)

DictKeys(d) == {d[i][1] : i \in DOMAIN d}

DictGet(d, k) == d[CHOOSE i \in DOMAIN d : d[i][1] = k][2]

\* d[k] = v: the value of an existing key is replaced in place, a new key
\* is appended
DictSet(d, k, v) ==
    IF k \in DictKeys(d)
    THEN [i \in DOMAIN d |-> IF d[i][1] = k THEN <<k, v>> ELSE d[i]]
    ELSE Append(d, <<k, v>>)

\* d.update(other)
RECURSIVE DictUpdate(_, _)
DictUpdate(d, other) ==
    IF other = <<>> THEN d
    ELSE DictUpdate(DictSet(d, Head(other)[1], Head(other)[2]), Tail(other))

----------------------------------------------------------------------------
(* The spelling model: SpellChecker() of pyspellchecker, case-insensitive  *)
(* by default.  Its English word list is represented by a few words.       *)

w_hello == <<"h", "e", "l", "l", "o">>
w_world == <<"w", "o", "r", "l", "d">>
t_Hello == <<"H", "e", "l", "l", "o">>
t_Helllo == <<"H", "e", "l", "l", "l", "o">>
w_helllo == <<"h", "e", "l", "l", "l", "o">>
w_wrold == <<"w", "r", "o", "l", "d">>
t_Foo == <<"F", "o", "o">>
t_42 == <<"4", "2">>

\* str.lower() of one character
lower_char(c) ==
    IF \E i \in DOMAIN UpperCase : UpperCase[i] = c
    THEN LowerCase[CHOOSE i \in DOMAIN UpperCase : UpperCase[i] = c]
    ELSE c

\* str.lower()
lower(w) == [i \in DOMAIN w |-> lower_char(w[i])]

\* spell = SpellChecker(): the word frequency list of the default language
SpellChecker == {w_hello, w_world, <<"a">>}

\* spell.word_frequency.load_words(ignore_words): the words are added to
\* the known words, lower-cased
\* (faulty variant: the ignore list is not loaded)
load_words_nothing(dict, ws) == dict
load_words(dict, ws) == dict \cup {lower(ws[i]) : i \in DOMAIN ws}

\* word_frequency.longest_word_length
longest_word_length(dict) ==
    IF dict = {} THEN 0
    ELSE CHOOSE n \in {Len(w) : w \in dict} : \A w \in dict : Len(w) <= n

AllDigits(w) == w # <<>> /\ \A i \in DOMAIN w : w[i] \in Digits

\* float(word) succeeds; the word holds no whitespace and no ASCII
\* punctuation
is_float(w) ==
    \/ AllDigits(w)
    \/ \E k \in DOMAIN w :
          /\ w[k] \in {"e", "E"}
          /\ AllDigits(SubSeq(w, 1, k - 1))
          /\ AllDigits(SubSeq(w, k + 1, Len(w)))
    \/ lower(w) \in {<<"n", "a", "n">>, <<"i", "n", "f">>,
                     <<"i", "n", "f", "i", "n", "i", "t", "y">>}

\* SpellChecker._check_if_should_check: single punctuation characters,
\* over-long words and numbers are never reported
check_if_should_check(dict, w) ==
    /\ ~(Len(w) = 1 /\ w[1] \in Punctuation)
    /\ Len(w) <= longest_word_length(dict) + 3
    /\ ~is_float(w)

\* spell.unknown(words): the words to check, lower-cased, that are not
\* known
\* (faulty variant: the words are returned as they are written)
unknown_as_written(dict, ws) ==
    {ws[i] : i \in {j \in DOMAIN ws :
                      /\ check_if_should_check(dict, ws[j])
                      /\ lower(ws[j]) \notin dict}}
unknown(dict, ws) ==
    LET tmp == {lower(ws[i]) :
                  i \in {j \in DOMAIN ws : check_if_should_check(dict, ws[j])}}
    IN  {w \in tmp : w \notin dict}

----------------------------------------------------------------------------
(* Documents *)

Cell(type, source) == [cell_type |-> type, source |-> source]

\* "Helllo wrold"
s_Helllo_wrold == t_Helllo \o <<" ">> \o w_wrold
\* "hello, wor.ld!"
s_hello_world == w_hello \o <<",", " ", "w", "o", "r", ".", "l", "d", "!">>
\* "wrold\nHello"
s_wrold_Hello == w_wrold \o <<"\n">> \o t_Hello
\* "Foo 42"
s_Foo_42 == t_Foo \o <<" ">> \o t_42

MdMiss == Cell("markdown", s_Helllo_wrold)
MdClean == Cell("markdown", s_hello_world)
MdAgain == Cell("markdown", s_wrold_Hello)
MdFoo == Cell("markdown", s_Foo_42)
CodeMiss == Cell("code", s_Helllo_wrold)
RawMiss == Cell("raw", w_wrold)

CellCatalogue == {MdMiss, MdClean, MdAgain, MdFoo, CodeMiss, RawMiss}

\* sequences over S of length at most n
SeqsUpTo(S, n) == UNION {[1..k -> S] : k \in 0..n}

\* what a file holds: a well-formed notebook, a file nbformat.read rejects,
\* or a file open() fails on
Notebook(cells) == [kind |-> "notebook", cells |-> cells]
Malformed == [kind |-> "malformed", cells |-> <<>>]
Unreadable == [kind |-> "unreadable", cells |-> <<>>]
\* no document yet
NoDocument == [kind |-> "none", cells |-> <<>>]

\* the ignore lists tried
IgnoreLists == {<<>>, <<t_Foo>>, <<t_Helllo, w_wrold>>}

----------------------------------------------------------------------------
(* The directory tree *)

ext_ipynb == <<".", "i", "p", "y", "n", "b">>
n_a_ipynb == <<"a">> \o ext_ipynb
n_b_ipynb == <<"b">> \o ext_ipynb
n_c_ipynb_txt == <<"c">> \o ext_ipynb \o <<".", "t", "x", "t">>
n_ipynb == <<"i", "p", "y", "n", "b">>
n_d == <<"d">>
n_s_ipynb == <<"s">> \o ext_ipynb

\* os.path.join(a, b)
join(a, b) ==
    IF b # <<>> /\ Head(b) = "/" THEN b
    ELSE IF a = <<>> \/ a[Len(a)] = "/" THEN a \o b
    ELSE a \o <<"/">> \o b

\* str.endswith
endswith(name, suffix) ==
    /\ Len(name) >= Len(suffix)
    /\ SubSeq(name, Len(name) - Len(suffix) + 1, Len(name)) = suffix

\* the directories of the trees tried: ".", "./d" and "./d/s.ipynb" (a
\* directory whose name ends with .ipynb)
Root == <<".">>
DirD == join(Root, n_d)
DirS == join(DirD, n_s_ipynb)
Dirs == {Root, DirD, DirS}

SubdirNames(dir) ==
    IF dir = Root THEN {n_d} ELSE IF dir = DirD THEN {n_s_ipynb} ELSE {}

\* the places of the trees tried where a file may be
Slots == {<<Root, n_a_ipynb>>, <<Root, n_b_ipynb>>, <<Root, n_c_ipynb_txt>>,
          <<DirS, n_a_ipynb>>, <<DirS, n_ipynb>>}

\* what the files of the trees tried hold
DocClean == Notebook(<<MdClean, CodeMiss>>)
DocMiss == Notebook(<<MdMiss>>)
DocCodeOnly == Notebook(<<CodeMiss, RawMiss>>)
Contents == {DocClean, DocMiss, DocCodeOnly, Malformed, Unreadable}

DirEntry(name) == [name |-> name, is_dir |-> TRUE, content |-> Unreadable]
FileEntry(name, content) == [name |-> name, is_dir |-> FALSE, content |-> content]

\* the tree that holds content[slot] at every slot of the domain of content
Tree(content) ==
    [dir \in Dirs |->
        {DirEntry(n) : n \in SubdirNames(dir)}
        \cup {FileEntry(slot[2], content[slot]) :
                slot \in {sl \in DOMAIN content : sl[1] = dir}}]

\* the orders in which a set can be enumerated
Orders(S) ==
    {o \in [1..Cardinality(S) -> S] : \A i, j \in DOMAIN o : o[i] = o[j] => i = j}

\* os.scandir as os.walk uses it: the entries of a directory, split into
\* directories and the rest
ScanDirs(tree, dir) == {e \in tree[dir] : e.is_dir}
ScanFiles(tree, dir) == {e \in tree[dir] : ~e.is_dir}

----------------------------------------------------------------------------
(* Initial states *)

TextIdle ==
    /\ text = <<>> /\ stripped = <<>> /\ stripped2 = <<>> /\ words = <<>>
    /\ tpc = "idle"

NotebookIdle ==
    /\ caller = None /\ filepath = <<>> /\ document = NoDocument
    /\ dictionary = {} /\ misspelled_words = <<>> /\ nb = <<>>
    /\ cell_index = 0 /\ pending = None /\ result = <<>>

ProcessStart ==
    /\ open_files = {} /\ stdout = <<>> /\ exit_status = "running"
    /\ sys_exit_called = FALSE /\ exception = None
    /\ checked = <<>> /\ opened = <<>>

\* spell_check_directory('.', ignore_words) is called on a tree
Init ==
    /\ TextIdle /\ NotebookIdle /\ ProcessStart
    /\ \E S \in SUBSET Slots :
          /\ Cardinality(S) <= MaxFiles
          /\ \E content \in [S -> Contents] : fs = Tree(content)
    /\ ignore_words \in {<<>>, <<t_Helllo, w_wrold>>}
    /\ pc = "walk"
    /\ all_misspelled_words = <<>>
    /\ stack = <<Root>>
    /\ subdir = <<>> /\ files = <<>> /\ items = <<>>

\* spell_check_notebook(filepath, ignore_words) is called on one document
InitNotebook ==
    /\ TextIdle /\ ProcessStart
    /\ \E cells \in SeqsUpTo(CellCatalogue, MaxCells),
          kind \in {"notebook", "malformed", "unreadable"} :
          /\ kind # "notebook" => cells = <<>>
          /\ fs = Tree(<<Root, n_a_ipynb>> :> [kind |-> kind, cells |-> cells])
    /\ ignore_words \in IgnoreLists
    /\ pc = "call"
    /\ NotebookIdle
    /\ all_misspelled_words = <<>>
    /\ stack = <<>> /\ subdir = Root /\ files = <<>> /\ items = <<>>

\* remove_punctuation(text) is called on one text
InitText ==
    /\ text \in SeqsUpTo(TextChars, MaxTextLen)
    /\ stripped = <<>> /\ stripped2 = <<>> /\ words = <<>>
    /\ tpc = "start"
    /\ NotebookIdle /\ ProcessStart
    /\ fs = Tree(<<>>)
    /\ ignore_words = <<>>
    /\ pc = "idle"
    /\ all_misspelled_words = <<>>
    /\ stack = <<>> /\ subdir = <<>> /\ files = <<>> /\ items = <<>>

----------------------------------------------------------------------------
(* spell_check_notebook *)

\* the entry of a path in the tree
EntryAt(tree, dir, name) == CHOOSE e \in tree[dir] : e.name = name

\* lines 12-15 of a call spell_check_notebook(path, ignore_words) on a file
\* that holds doc
Call(path, doc, from) ==
    /\ caller' = from
    /\ filepath' = path
    /\ document' = doc
    /\ dictionary' = load_words(SpellChecker, ignore_words)
    /\ misspelled_words' = <<>>
    /\ nb' = <<>> /\ cell_index' = 0 /\ pending' = None /\ result' = <<>>
    /\ checked' = Append(checked, path)
    /\ pc' = "open"

\* an exception no frame catches: the interpreter prints the traceback to
\* stderr and the process ends with status 1
\* (faulty variant: the caller goes on with the next file)
Uncaught_isolated(type) ==
    /\ exception' = type
    /\ exit_status' = exit_status
    /\ pc' = IF caller = "directory" THEN "files" ELSE "returned"
Uncaught(type) ==
    /\ exception' = type
    /\ exit_status' = 1
    /\ pc' = "done"

\* line 17, open(filepath): fails on a file that cannot be read
OpenFile ==
    /\ pc = "open"
    /\ opened' = Append(opened, filepath)
    /\ IF document.kind = "unreadable"
       THEN /\ Uncaught("OSError")
            /\ UNCHANGED open_files
       ELSE /\ open_files' = open_files \cup {filepath}
            /\ pc' = "read"
            /\ UNCHANGED <<exception, exit_status>>
    /\ UNCHANGED <<tvars, nvars, ignore_words, all_misspelled_words, stack,
                   subdir, files, items, fs, stdout, sys_exit_called, checked>>

\* line 18, nbformat.read(f, as_version=4): raises on a malformed document
ReadNotebook ==
    /\ pc = "read"
    /\ IF document.kind = "malformed"
       THEN pending' = "ValidationError" /\ UNCHANGED nb
       ELSE nb' = document.cells /\ UNCHANGED pending
    /\ pc' = "exit_with"
    /\ UNCHANGED <<tvars, caller, filepath, document, dictionary,
                   misspelled_words, cell_index, result, ignore_words,
                   all_misspelled_words, stack, subdir, files, items, evars>>

\* the handles open after the with block of line 17 is left
\* (faulty variant: the file stays open when the block raised)
close_leaks_on_error(handles, path, exc) ==
    IF exc = None THEN handles \ {path} ELSE handles
close(handles, path, exc) == handles \ {path}

\* end of the with block of line 17: the file is closed, and the exception
\* raised inside the block, if any, goes on
ExitWith ==
    /\ pc = "exit_with"
    /\ open_files' = close(open_files, filepath, pending)
    /\ IF pending # None
       THEN /\ Uncaught(pending)
            /\ UNCHANGED cell_index
       ELSE /\ cell_index' = 1
            /\ pc' = "cells"
            /\ UNCHANGED <<exception, exit_status>>
    /\ UNCHANGED <<tvars, caller, filepath, document, dictionary,
                   misspelled_words, nb, pending, result, ignore_words,
                   all_misspelled_words, stack, subdir, files, items, fs,
                   stdout, sys_exit_called, checked, opened>>

\* lines 26-28: the words are added to the set of the path
\* (faulty variant: the set of the path is replaced)
record_overwrite(mw, path, misspelled) == DictSet(mw, path, misspelled)
record(mw, path, misspelled) ==
    LET with_key == IF path \notin DictKeys(mw)
                    THEN DictSet(mw, path, {}) ELSE mw
    IN  DictSet(with_key, path, DictGet(with_key, path) \cup misspelled)

\* lines 21-28, the body of the loop for one cell
\* (faulty variant: the cell type is not looked at)
check_cell_any_type(mw, path, dict, cell) ==
    LET misspelled == unknown(dict, split(remove_punctuation(cell.source)))
    IN  IF misspelled # {} THEN record(mw, path, misspelled) ELSE mw
check_cell(mw, path, dict, cell) ==
    IF cell.cell_type = "markdown"
    THEN LET text_ == remove_punctuation(cell.source)
             misspelled == unknown(dict, split(text_))
         IN  IF misspelled # {} THEN record(mw, path, misspelled) ELSE mw
    ELSE mw

\* one iteration of the loop of line 20
CheckCell ==
    /\ pc = "cells"
    /\ cell_index <= Len(nb)
    /\ misspelled_words' =
           check_cell(misspelled_words, filepath, dictionary, nb[cell_index])
    /\ cell_index' = cell_index + 1
    /\ UNCHANGED <<tvars, caller, filepath, document, dictionary, nb, pending,
                   result, dvars, evars>>

\* line 30, after the last cell
Return ==
    /\ pc = "cells"
    /\ cell_index > Len(nb)
    /\ result' = misspelled_words
    /\ pc' = IF caller = "directory" THEN "merge" ELSE "returned"
    /\ UNCHANGED <<tvars, caller, filepath, document, dictionary,
                   misspelled_words, nb, cell_index, pending, ignore_words,
                   all_misspelled_words, stack, subdir, files, items, evars>>

\* spell_check_notebook called on its own, on the one file of the tree
DirectCall ==
    /\ pc = "call"
    /\ Call(join(Root, n_a_ipynb), EntryAt(fs, Root, n_a_ipynb).content, "direct")
    /\ UNCHANGED <<tvars, ignore_words, all_misspelled_words, stack, subdir,
                   files, items, fs, open_files, stdout, exit_status,
                   sys_exit_called, exception, opened>>

----------------------------------------------------------------------------
(* spell_check_directory *)

\* line 34, os.walk(directory) resumed: the next directory is listed, its
\* subdirectories are queued before the directories already waiting (the
\* walk is top-down, depth-first), and it is yielded with its files; the
\* order of a listing is the file system's
WalkYield ==
    /\ pc = "walk"
    /\ stack # <<>>
    /\ LET top == Head(stack) IN
       /\ subdir' = top
       /\ \E order \in Orders(ScanFiles(fs, top)) :
             files' = [i \in DOMAIN order |-> order[i].name]
       /\ \E order \in Orders(ScanDirs(fs, top)) :
             stack' = [i \in DOMAIN order |-> join(top, order[i].name)]
                      \o Tail(stack)
    /\ pc' = "files"
    /\ UNCHANGED <<tvars, nvars, ignore_words, all_misspelled_words, items,
                   evars>>

\* line 34, os.walk exhausted: the loop ends
WalkEnd ==
    /\ pc = "walk"
    /\ stack = <<>>
    /\ pc' = "report"
    /\ UNCHANGED <<tvars, nvars, ignore_words, all_misspelled_words, stack,
                   subdir, files, items, evars>>

\* line 36: the files spell_check_notebook is called for
\* (faulty variant: the dot of the extension is not required)
is_notebook_loose(file) == endswith(file, n_ipynb)
is_notebook(file) == endswith(file, ext_ipynb)

\* lines 35-38, a file that is a notebook: spell_check_notebook is called
CheckFile ==
    /\ pc = "files"
    /\ files # <<>>
    /\ is_notebook(Head(files))
    /\ Call(join(subdir, Head(files)), EntryAt(fs, subdir, Head(files)).content,
            "directory")
    /\ files' = Tail(files)
    /\ UNCHANGED <<tvars, ignore_words, all_misspelled_words, stack, subdir,
                   items, fs, open_files, stdout, exit_status, sys_exit_called,
                   exception, opened>>

\* lines 35-36, any other file: nothing is done
SkipFile ==
    /\ pc = "files"
    /\ files # <<>>
    /\ ~is_notebook(Head(files))
    /\ files' = Tail(files)
    /\ UNCHANGED <<tvars, nvars, pc, ignore_words, all_misspelled_words, stack,
                   subdir, items, evars>>

\* line 35, no file left in this directory: back to os.walk
FilesEnd ==
    /\ pc = "files"
    /\ files = <<>>
    /\ pc' = "walk"
    /\ UNCHANGED <<tvars, nvars, ignore_words, all_misspelled_words, stack,
                   subdir, files, items, evars>>

\* lines 39-40: the aggregate after the result of one document
\* (faulty variant: the aggregate is replaced by the result)
merge_replace(all, res) == IF res # <<>> THEN res ELSE all
merge(all, res) == IF res # <<>> THEN DictUpdate(all, res) ELSE all

\* lines 38-40, after the call returned
Merge ==
    /\ pc = "merge"
    /\ all_misspelled_words' = merge(all_misspelled_words, result)
    /\ pc' = "files"
    /\ UNCHANGED <<tvars, nvars, ignore_words, stack, subdir, files, items,
                   evars>>

\* line 42: whether there is anything to report
\* (faulty variant: the report branch is always taken)
has_report_always(all) == TRUE
has_report(all) == all # <<>>

\* lines 42-43: the loop over the items of the aggregate starts, or the
\* function returns None and the script ends
Report ==
    /\ pc = "report"
    /\ IF has_report(all_misspelled_words)
       THEN /\ items' = all_misspelled_words
            /\ pc' = "print"
            /\ UNCHANGED exit_status
       ELSE /\ pc' = "done"
            /\ exit_status' = 0
            /\ UNCHANGED items
    /\ UNCHANGED <<tvars, nvars, ignore_words, all_misspelled_words, stack,
                   subdir, files, fs, open_files, stdout, sys_exit_called,
                   exception, checked, opened>>

\* line 44: one line for one item
PrintLine ==
    /\ pc = "print"
    /\ items # <<>>
    /\ stdout' = Append(stdout, Head(items))
    /\ items' = Tail(items)
    /\ UNCHANGED <<tvars, nvars, pc, ignore_words, all_misspelled_words, stack,
                   subdir, files, fs, open_files, exit_status, sys_exit_called,
                   exception, checked, opened>>

\* line 45: sys.exit(1)
SysExit ==
    /\ pc = "print"
    /\ items = <<>>
    /\ sys_exit_called' = TRUE
    /\ exit_status' = 1
    /\ pc' = "done"
    /\ UNCHANGED <<tvars, nvars, ignore_words, all_misspelled_words, stack,
                   subdir, files, items, fs, open_files, stdout, exception,
                   checked, opened>>

----------------------------------------------------------------------------
(* remove_punctuation on its own *)

\* remove_punctuation(text)
Strip ==
    /\ tpc = "start"
    /\ stripped' = remove_punctuation(text)
    /\ tpc' = "stripped"
    /\ UNCHANGED <<text, stripped2, words, nvars, dvars, evars>>

\* remove_punctuation applied to its own result
StripAgain ==
    /\ tpc = "stripped"
    /\ stripped2' = remove_punctuation(stripped)
    /\ tpc' = "split"
    /\ UNCHANGED <<text, stripped, words, nvars, dvars, evars>>

\* line 24, text.split()
Split ==
    /\ tpc = "split"
    /\ words' = split(stripped)
    /\ tpc' = "done"
    /\ UNCHANGED <<text, stripped, stripped2, nvars, dvars, evars>>

----------------------------------------------------------------------------
(* Specifications *)

NotebookStep == OpenFile \/ ReadNotebook \/ ExitWith \/ CheckCell \/ Return

Next ==
    \/ WalkYield \/ WalkEnd \/ CheckFile \/ SkipFile \/ FilesEnd
    \/ NotebookStep
    \/ Merge \/ Report \/ PrintLine \/ SysExit

NextNotebook == DirectCall \/ NotebookStep

NextText == Strip \/ StripAgain \/ Split

\* a run of spell_check_directory
Spec == Init /\ [][Next]_vars

\* a run of spell_check_notebook
SpecNotebook == InitNotebook /\ [][NextNotebook]_vars

\* a run of remove_punctuation
SpecText == InitText /\ [][NextText]_vars

----------------------------------------------------------------------------
(* Vocabulary of the properties, stated without the program's operators    *)
(* where the property is about their result                                *)

Range(f) == {f[i] : i \in DOMAIN f}

\* the text with its punctuation characters struck out by hand
ManualStrip(s) == SelectSeq(s, LAMBDA c : c \notin Punctuation)

\* the whitespace-separated tokens of a text, in order: the maximal runs of
\* characters that are not whitespace
TokenStarts(s) ==
    {i \in DOMAIN s : s[i] \notin Whitespace /\ (i = 1 \/ s[i - 1] \in Whitespace)}
TokenEnd(s, i) ==
    CHOOSE j \in i..Len(s) :
        /\ \A k \in i..j : s[k] \notin Whitespace
        /\ j = Len(s) \/ s[j + 1] \in Whitespace
Tokens(s) ==
    [n \in 1..Cardinality(TokenStarts(s)) |->
        LET i == CHOOSE st \in TokenStarts(s) :
                     Cardinality({x \in TokenStarts(s) : x < st}) = n - 1
        IN  SubSeq(s, i, TokenEnd(s, i))]

MarkdownCells(cells) == {cells[i] : i \in {j \in DOMAIN cells : cells[j].cell_type = "markdown"}}

\* the tokens of the markdown cells of a document, punctuation removed
MarkdownTokens(cells) ==
    UNION {Range(Tokens(ManualStrip(c.source))) : c \in MarkdownCells(cells)}

\* a token neither the spelling model nor the ignore list knows, in any
\* letter case
Absent(t, ignore) ==
    /\ t \notin SpellChecker /\ lower(t) \notin SpellChecker
    /\ t \notin Range(ignore) /\ lower(t) \notin {lower(w) : w \in Range(ignore)}

\* the unknown words of the markdown cells, as the spelling model seeded
\* with the ignore list reports them
UnknownWords(cells, ignore) ==
    UNION {unknown(load_words(SpellChecker, ignore), split(remove_punctuation(c.source))) :
             c \in MarkdownCells(cells)}

\* the set a report holds for a path, empty when the path is no key
Reported(d, path) == IF path \in DictKeys(d) THEN DictGet(d, path) ELSE {}

\* the files of a tree, as <<directory, entry>>
FilesOf(tree) ==
    UNION {{<<d, e>> : e \in {x \in tree[d] : ~x.is_dir}} : d \in DOMAIN tree}
PathOf(f) == join(f[1], f[2].name)

\* the paths of the files whose name ends with .ipynb
NotebookPaths(tree) ==
    {PathOf(f) : f \in {g \in FilesOf(tree) : endswith(g[2].name, ext_ipynb)}}

\* what the file at a path holds
DocAt(tree, path) == (CHOOSE f \in FilesOf(tree) : PathOf(f) = path)[2].content

\* no notebook of the tree raises an error when it is read
NoBadDocument(tree) ==
    \A p \in NotebookPaths(tree) : DocAt(tree, p).kind = "notebook"

NoDuplicates(q) == \A i, j \in DOMAIN q : q[i] = q[j] => i = j

----------------------------------------------------------------------------
(* Properties *)

\* C7: remove_punctuation returns its argument with exactly the ASCII
\* punctuation characters deleted and every other character kept in order;
\* the empty text gives the empty text, a second application changes
\* nothing, and splitting the result on whitespace gives the tokens of the
\* text stripped by hand.
C7_RemovePunctuation ==
    /\ tpc \in {"stripped", "split", "done"} =>
          /\ stripped = ManualStrip(text)
          /\ text = <<>> => stripped = <<>>
    /\ tpc \in {"split", "done"} => stripped2 = stripped
    /\ tpc = "done" => words = Tokens(ManualStrip(text))

C7_Witness ==
    /\ tpc = "done"
    /\ "U+00E9" \in Range(text) /\ "'" \in Range(text) /\ "\n" \in Range(text)
    /\ Len(stripped) = 2 /\ Len(words) = 1

\* the document consists of markdown cells "Helllo wrold" only (and cells
\* of other types), and the ignore list is empty
C3_Case ==
    /\ pc = "returned"
    /\ ignore_words = <<>>
    /\ MarkdownCells(document.cells) = {MdMiss}

\* C3 as amended: for a document whose markdown text is "Helllo wrold" and
\* an empty ignore list, the set reported for the path is exactly
\* {"helllo", "wrold"}: each reported word is the token in lower case.
C3_ReportedLowerCase ==
    C3_Case => /\ DictKeys(result) = {filepath}
               /\ DictGet(result, filepath) = {w_helllo, w_wrold}
               /\ DictGet(result, filepath) =
                      {lower(t) : t \in MarkdownTokens(document.cells)}

\* C3 as stated: the set reported is exactly {"Helllo", "wrold"}, each word
\* with the letter case it has in the cell.
C3_ReportedAsWritten ==
    C3_Case => /\ DictKeys(result) = {filepath}
               /\ DictGet(result, filepath) = {t_Helllo, w_wrold}

C3_Witness ==
    /\ C3_Case
    /\ nb = <<MdMiss>>
    /\ t_Helllo \notin DictGet(result, filepath)

\* every token of every markdown cell of the document is in the ignore list
C6_Case ==
    /\ document.kind = "notebook"
    /\ MarkdownTokens(document.cells) \subseteq Range(ignore_words)

\* C6: for a document whose every markdown token, punctuation removed, is
\* in the ignore list, spell_check_notebook returns an empty report, also
\* when the tokens are not in the default dictionary.
C6_IgnoredWordsNotReported ==
    C6_Case => /\ misspelled_words = <<>>
               /\ pc = "returned" => result = <<>>

C6_Witness ==
    /\ pc = "returned"
    /\ C6_Case
    /\ Len(nb) = 2
    /\ \E t \in MarkdownTokens(document.cells) : lower(t) \notin SpellChecker

\* C8: the report of spell_check_notebook has at most one key, the path it
\* was given, and the set under it is the union of the unknown words of the
\* markdown cells processed so far, and of all of them at the return: a
\* word of several cells is there once and no word of an earlier cell is
\* lost.
C8_ReportIsUnionOfCells ==
    /\ DictKeys(misspelled_words) \subseteq {filepath}
    /\ Len(misspelled_words) <= 1
    /\ pc = "cells" =>
          Reported(misspelled_words, filepath) =
              UnknownWords(SubSeq(nb, 1, cell_index - 1), ignore_words)
    /\ pc = "returned" =>
          /\ DictKeys(result) \subseteq {filepath} /\ Len(result) <= 1
          /\ Reported(result, filepath) = UnknownWords(document.cells, ignore_words)
          /\ filepath \in DictKeys(result) => DictGet(result, filepath) # {}

C8_Witness ==
    /\ pc = "returned"
    /\ nb = <<MdMiss, MdAgain>>
    /\ ignore_words = <<>>
    /\ DictGet(result, filepath) = {w_helllo, w_wrold}

\* a markdown cell of the document holds a token that neither the spelling
\* model nor the ignore list knows
HasAbsentToken(doc, ignore) ==
    \E t \in MarkdownTokens(doc.cells) : Absent(t, ignore)

\* C2: a path is in the report of spell_check_notebook only if a markdown
\* cell of the document holds a token absent from the spelling model and
\* from the ignore list; cells of other types never contribute, so a
\* document without markdown cells has an empty report; and the same holds
\* of every key of the aggregate of spell_check_directory at every point.
C2_ReportedOnlyIfAbsentToken ==
    /\ \A d \in {misspelled_words, result} :
          /\ d # <<>> => /\ DictKeys(d) = {filepath}
                         /\ HasAbsentToken(document, ignore_words)
          /\ MarkdownCells(document.cells) = {} => d = <<>>
    /\ \A k \in DictKeys(all_misspelled_words) :
          /\ k \in NotebookPaths(fs)
          /\ HasAbsentToken(DocAt(fs, k), ignore_words)

C2_Witness ==
    /\ pc = "report"
    /\ all_misspelled_words # <<>>
    /\ \E i \in DOMAIN checked :
          /\ DocAt(fs, checked[i]) = DocCodeOnly
          /\ checked[i] \notin DictKeys(all_misspelled_words)

\* the notebooks of the tree with an unknown word in a markdown cell
Misspelled(tree, ignore) ==
    {p \in NotebookPaths(tree) : UnknownWords(DocAt(tree, p).cells, ignore) # {}}

\* C1: when spell_check_directory is through a tree in which no document
\* raises an error, the keys of the aggregate are exactly the notebooks
\* with an unknown word in a markdown cell, one line was printed for each
\* key, and the exit status is 1 if and only if the aggregate is not empty.
C1_FinalReport ==
    (pc = "done" /\ NoBadDocument(fs)) =>
        /\ DictKeys(all_misspelled_words) = Misspelled(fs, ignore_words)
        /\ NoDuplicates(stdout)
        /\ Len(stdout) = Cardinality(DictKeys(all_misspelled_words))
        /\ \A k \in DictKeys(all_misspelled_words) :
              <<k, UnknownWords(DocAt(fs, k).cells, ignore_words)>> \in Range(stdout)
        /\ exit_status \in {0, 1}
        /\ exit_status = 1 <=> all_misspelled_words # <<>>

C1_Witness ==
    /\ pc = "done" /\ NoBadDocument(fs)
    /\ \E p, q \in NotebookPaths(fs) :
          /\ DocAt(fs, p) = DocClean /\ DocAt(fs, q) = DocMiss
    /\ Len(stdout) = 1
    /\ exit_status = 1
    /\ Len(checked) = 2

\* no notebook of the tree yields an unknown word
C5_Case ==
    /\ pc = "done"
    /\ \A p \in NotebookPaths(fs) : UnknownWords(DocAt(fs, p).cells, ignore_words) = {}

C5_Silent ==
    /\ stdout = <<>>
    /\ ~sys_exit_called
    /\ exception = None
    /\ exit_status = 0

C4_ErrorEndsTheRun ==
    /\ [](exception # None =>
            /\ pc = "done" /\ exit_status = 1 /\ ~sys_exit_called
            /\ stdout = <<>>
            /\ document.kind \in {"malformed", "unreadable"}
            /\ checked[Len(checked)] = filepath
            /\ opened[Len(opened)] = filepath)
    /\ [][exception # None =>
            UNCHANGED <<checked, opened, stdout, open_files, all_misspelled_words>>]_vars

C4_Witness ==
    /\ exception # None
    /\ all_misspelled_words # <<>>
    /\ Cardinality(NotebookPaths(fs)) > Len(checked)

\* C9: spell_check_notebook is called only for files whose name ends with
\* .ipynb, never twice for one path, and, when the traversal ends without
\* an error, once for each such file of the tree at any depth; a merge
\* leaves the entries the aggregate already has as they are.
C9_EachNotebookOnce ==
    /\ [](/\ Range(checked) \subseteq NotebookPaths(fs)
          /\ NoDuplicates(checked)
          /\ (pc = "done" /\ exception = None) =>
                 Range(checked) = NotebookPaths(fs))
    /\ [][\A k \in DictKeys(all_misspelled_words) :
             /\ k \in DictKeys(all_misspelled_words')
             /\ DictGet(all_misspelled_words', k) = DictGet(all_misspelled_words, k)]_vars

C9_Witness ==
    /\ pc = "done" /\ exception = None
    /\ join(DirS, n_a_ipynb) \in Range(checked)
    /\ join(Root, n_a_ipynb) \in Range(checked)
    /\ Len(all_misspelled_words) = 2
    /\ \E f \in FilesOf(fs) : f[2].name = n_ipynb

\* C10: at most one document file is open at any time, only between the
\* open and the end of the with block of the document being checked: none
\* while cells are checked, while the next file is looked for, after an
\* error, while the report is printed or when the process is over.
C10_HandleReleasedAfterRead ==
    /\ Cardinality(open_files) <= 1
    /\ open_files \subseteq {filepath}
    /\ pc \notin {"read", "exit_with"} => open_files = {}
    /\ pc \in {"read", "exit_with"} => open_files = {filepath}

C10_Witness ==
    /\ pc = "done"
    /\ exception = "ValidationError"
    /\ Len(opened) >= 2
    /\ open_files = {}

====
